---- MODULE Spec2Model ----
(***************************************************************************)
(* Backtesting simulator of the Trading-Strategy-Agent repository          *)
(* (src/modules/backtester.py): Backtester.generate_signals,               *)
(* Backtester.run_backtest and Backtester.calculate_metrics.               *)
(*                                                                         *)
(* Arithmetic.  Close prices are whole currency units.  Every amount of    *)
(* money (capital, cost, proceeds, commission, profit, equity) is counted  *)
(* in mills, 1/PerMille of a currency unit, and the commission rate is     *)
(* counted in thousandths, so that shares*price*(1 +/- commission) is an   *)
(* exact integer number of mills.  Quotients the code leaves as reals      *)
(* (profit_pct, total_return_pct, win_rate) are kept as fractions          *)
(* [num, den], compared by cross-multiplication.                           *)
(*                                                                         *)
(* Timestamps.  df.index[i] is modelled by the 0-based position i of the   *)
(* bar; Python's df.iloc[i] is df[i + 1] here.                             *)
(***************************************************************************)
EXTENDS Integers, Sequences, FiniteSets, TLC

\* ------------------------------------------------------------------ bounds
\* longest series drawn by Init
MaxBars == 3

\* 1 currency unit = PerMille mills; a commission of 0.001 is 1 thousandth
PerMille == 1000

\* numpy's NaN: the value of an indicator whose lookback window is not full
NaN == -999

\* close prices of the bars (positive)
Closes == {2, 3, 7}

\* commission rates handed to run_backtest, in thousandths: 0 and the default 0.001
Commissions == {0, 1}

\* initial_capital handed to the constructor, in mills (10 currency units)
InitialCapitals == {10 * PerMille}

\* strategy names handed to run_backtest; "other" is a name generate_signals does not know
Strategies == {"rsi_macd", "ma_crossover", "combined", "other"}

\* indicator columns of a bar: a warm-up bar, an oversold bar with both
\* crossovers up, an overbought bar with both crossovers down, and a bar with
\* both crossovers up whose RSI is under 40 but not under 30
IndicatorRows ==
    { [RSI |-> NaN, MACD |-> 0, MACD_Signal |-> 0, SMA_Short |-> NaN, SMA_Long |-> NaN],
      [RSI |-> 25,  MACD |-> 1, MACD_Signal |-> 0, SMA_Short |-> 2,   SMA_Long |-> 1],
      [RSI |-> 75,  MACD |-> 0, MACD_Signal |-> 1, SMA_Short |-> 1,   SMA_Long |-> 2],
      [RSI |-> 35,  MACD |-> 1, MACD_Signal |-> 0, SMA_Short |-> 2,   SMA_Long |-> 1] }

\* one row of the DataFrame handed to the constructor
Rows ==
    { [Close |-> c, RSI |-> r.RSI, MACD |-> r.MACD, MACD_Signal |-> r.MACD_Signal,
       SMA_Short |-> r.SMA_Short, SMA_Long |-> r.SMA_Long] : c \in Closes, r \in IndicatorRows }

\* all series of 0..MaxBars rows
SeriesSet == UNION { [1..n -> Rows] : n \in 0..MaxBars }

\* values of the RSI column: undefined, and values below, at and above each
\* threshold the strategies compare it with
RSIValues == {NaN, 25, 30, 35, 40, 50, 60, 65, 70, 75}

\* values of the MACD and MACD_Signal columns
MACDValues == {NaN, 0, 1}

\* values of the SMA_Short and SMA_Long columns
SMAValues == {NaN, 1, 2}

\* rows whose five indicator columns vary independently, at one close
WideRows ==
    { [Close |-> 3, RSI |-> r, MACD |-> m, MACD_Signal |-> g, SMA_Short |-> a, SMA_Long |-> b] :
        r \in RSIValues, m \in MACDValues, g \in MACDValues, a \in SMAValues, b \in SMAValues }

\* series of one wide row, alone or after one row of Rows
WideSeriesSet == { <<w>> : w \in WideRows } \cup { <<r, w>> : r \in Rows, w \in WideRows }

\* ------------------------------------------------------- indicator engine
\* calculate_rsi(period=14)
RSIPeriod == 14

\* calculate_moving_averages(short_period=20, ...)
ShortPeriod == 20

\* calculate_moving_averages(..., long_period=50)
LongPeriod == 50

\* number of bars of the end-to-end series
ScenarioBars == 60

\* the flat end-to-end series: every close is 100
FlatCloses == [k \in 1..ScenarioBars |-> 100]

\* bars at which a rising series makes up, in one step, what a rise of 1 per
\* bar leaves short of 200
JumpBars == {2, 15, 31, ScenarioBars}

\* the rising end-to-end series: strictly increasing closes from 100 to 200
RisingCloses ==
    { [k \in 1..ScenarioBars |->
          100 + (k - 1) + (IF k >= j THEN 100 - (ScenarioBars - 1) ELSE 0)] : j \in JumpBars }

\* the series of exactly one bar
OneBarCloses == { <<c>> : c \in {100, 150} }

\* initial_capital of the end-to-end runs: 10000 currency units, in mills
ScenarioCapital == 10000 * PerMille

\* the order of MACD and its signal line over a series, where it is not
\* computed: `before` up to bar `switch`, `after` from then on (1: MACD above
\* the signal line, -1: below, 0: equal)
MACDPatterns ==
    [before : {-1, 0, 1}, switch : {20, 40}, after : {-1, 0, 1}]

\* longest close series handed to a TechnicalIndicators object
MaxCloses == 4

\* close prices of those series (positive)
IndicatorCloses == {1, 2, 3}

\* all close series of 0..MaxCloses bars
CloseSeriesSet == UNION { [1..n -> IndicatorCloses] : n \in 0..MaxCloses }

\* periods handed to calculate_rsi besides the default
RSIPeriods == {2, 3}

\* (short_period, long_period) handed to calculate_moving_averages besides the default
MAPeriods == { <<2, 3>> }

\* the patterns that differ on a series of fewer bars than the first switch:
\* one order of MACD and its signal line for all bars after bar 0
EarlyPatterns == {p \in MACDPatterns : p.switch = 20 /\ p.after = 0}

\* max_retries = 3 in fetch_data
MaxRetries == 3

\* largest number of records ticker.history returns
MaxRows == 2

\* ticker symbols handed to DataCollector
Symbols == {"AAPL", "GOOGL"}

\* what one call of ticker.history does: raise, return None, or return a frame
\* of 0..MaxRows records (0 records: an empty frame)
FetchOutcomes ==
    { [kind |-> "raise", rows |-> 0], [kind |-> "None", rows |-> 0] }
        \cup { [kind |-> "frame", rows |-> n] : n \in 0..MaxRows }

\* ------------------------------------------------------------------- state
VARIABLES
    data,             \* self.data: the series with its indicator columns
    initial_capital,  \* self.initial_capital
    trades,           \* self.trades
    portfolio_value,  \* self.portfolio_value
    pc,               \* position of the run: idle, loop, metrics, done
    strategy_type,    \* run_backtest argument
    commission,       \* run_backtest argument, in thousandths
    df,               \* run_backtest local: data with the signal column
    i,                \* run_backtest local: index of the next bar
    capital,          \* run_backtest local: cash, in mills
    position,         \* run_backtest local: number of shares held
    entry_price,      \* run_backtest local: price of the open position
    report,           \* <<>> until run_backtest returns, then <<metrics>>
    returned,         \* what the earlier calls of run_backtest on this instance left
                      \* to the caller: arguments, trade log, equity curve, report
    input,            \* the caller's DataFrame, of which the constructor takes a copy
    ti,               \* a TechnicalIndicators object: its data and self.indicators
    dc,               \* a DataCollector object inside fetch_data
    second            \* a second Backtester instance built by the same caller

vars == <<data, initial_capital, trades, portfolio_value, pc, strategy_type,
          commission, df, i, capital, position, entry_price, report, returned, input, ti, dc, second>>

\* ------------------------------------------------------- pure computations
\* a real quotient num/den, kept exact
Frac(num, den) == [num |-> num, den |-> den]

\* Lt that takes NaN for a number
Lt_Plain(a, b) == a < b

\* a < b as pandas/numpy compare floats: False when either side is NaN
Lt(a, b) == a # NaN /\ b # NaN /\ a < b

\* Gt that holds on a tie
Gt_OrEqual(a, b) == a # NaN /\ b # NaN /\ a >= b

\* a > b as pandas/numpy compare floats: False when either side is NaN
Gt(a, b) == a # NaN /\ b # NaN /\ a > b

\* SignalOf with the RSI thresholds taken inclusive
SignalOf_Inclusive(row, strategy) ==
    IF strategy = "rsi_macd" THEN
        IF row.RSI # NaN /\ row.RSI >= 70 /\ Lt(row.MACD, row.MACD_Signal) THEN -1
        ELSE IF row.RSI # NaN /\ row.RSI <= 30 /\ Gt(row.MACD, row.MACD_Signal) THEN 1
        ELSE 0
    ELSE IF strategy = "ma_crossover" THEN
        IF Lt(row.SMA_Short, row.SMA_Long) THEN -1
        ELSE IF Gt(row.SMA_Short, row.SMA_Long) THEN 1
        ELSE 0
    ELSE IF strategy = "combined" THEN
        IF row.RSI # NaN /\ row.RSI >= 60 /\ Lt(row.MACD, row.MACD_Signal)
              /\ Lt(row.SMA_Short, row.SMA_Long) THEN -1
        ELSE IF row.RSI # NaN /\ row.RSI <= 40 /\ Gt(row.MACD, row.MACD_Signal)
              /\ Gt(row.SMA_Short, row.SMA_Long) THEN 1
        ELSE 0
    ELSE 0

\* the signal generate_signals writes for one row: 1 buy, -1 sell, 0 hold;
\* the sell assignment comes second and overwrites the buy assignment
SignalOf(row, strategy) ==
    IF strategy = "rsi_macd" THEN
        IF Gt(row.RSI, 70) /\ Lt(row.MACD, row.MACD_Signal) THEN -1
        ELSE IF Lt(row.RSI, 30) /\ Gt(row.MACD, row.MACD_Signal) THEN 1
        ELSE 0
    ELSE IF strategy = "ma_crossover" THEN
        IF Lt(row.SMA_Short, row.SMA_Long) THEN -1
        ELSE IF Gt(row.SMA_Short, row.SMA_Long) THEN 1
        ELSE 0
    ELSE IF strategy = "combined" THEN
        IF Gt(row.RSI, 60) /\ Lt(row.MACD, row.MACD_Signal)
              /\ Lt(row.SMA_Short, row.SMA_Long) THEN -1
        ELSE IF Lt(row.RSI, 40) /\ Gt(row.MACD, row.MACD_Signal)
              /\ Gt(row.SMA_Short, row.SMA_Long) THEN 1
        ELSE 0
    ELSE 0

\* generate_signals: a copy of the series with the signal column added
generate_signals(d, strategy) ==
    [k \in 1..Len(d) |->
        [Close |-> d[k].Close, RSI |-> d[k].RSI, MACD |-> d[k].MACD,
         MACD_Signal |-> d[k].MACD_Signal, SMA_Short |-> d[k].SMA_Short,
         SMA_Long |-> d[k].SMA_Long, signal |-> SignalOf(d[k], strategy)]]

\* s[lo] + ... + s[hi]
RECURSIVE SumSeq(_, _, _)
SumSeq(s, lo, hi) == IF lo > hi THEN 0 ELSE s[hi] + SumSeq(s, lo, hi - 1)

\* delta.where(delta > 0, 0): the rise of the close over the previous bar; the
\* nan delta of bar 0 fails delta > 0 and is replaced by 0
Gains(closes) ==
    [k \in 1..Len(closes) |->
        IF k > 1 /\ closes[k] > closes[k - 1] THEN closes[k] - closes[k - 1] ELSE 0]

\* -delta.where(delta < 0, 0): the fall of the close under the previous bar
Losses(closes) ==
    [k \in 1..Len(closes) |->
        IF k > 1 /\ closes[k] < closes[k - 1] THEN closes[k - 1] - closes[k] ELSE 0]

\* calculate_rsi with the loss left negative in rs (no minus before delta.where)
calculate_rsi_SignedLoss(closes, period) ==
    LET gains  == Gains(closes)
        losses == Losses(closes)
    IN  [k \in 1..Len(closes) |->
            IF k < period THEN Frac(0, 0)
            ELSE Frac(100 * SumSeq(gains, k - period + 1, k),
                      SumSeq(gains, k - period + 1, k) - SumSeq(losses, k - period + 1, k))]

\* calculate_rsi with gain and loss exchanged in rs
calculate_rsi_LossOverGain(closes, period) ==
    LET gains  == Gains(closes)
        losses == Losses(closes)
    IN  [k \in 1..Len(closes) |->
            IF k < period THEN Frac(0, 0)
            ELSE Frac(100 * SumSeq(losses, k - period + 1, k),
                      SumSeq(gains, k - period + 1, k) + SumSeq(losses, k - period + 1, k))]

\* calculate_rsi: per bar 100 - 100 / (1 + gain / loss) = 100 * gain / (gain + loss)
\* over the window of `period` bars ending at the bar; nan (den 0) while the
\* window is not full and when gain and loss are both 0; 100 when only the loss is 0
calculate_rsi(closes, period) ==
    LET gains  == Gains(closes)
        losses == Losses(closes)
    IN  [k \in 1..Len(closes) |->
            IF k < period THEN Frac(0, 0)
            ELSE Frac(100 * SumSeq(gains, k - period + 1, k),
                      SumSeq(gains, k - period + 1, k) + SumSeq(losses, k - period + 1, k))]

\* rolling(window).mean(): nan while the window is not full; the mean is kept
\* as the window's sum over `window`
RollingMean(closes, window) ==
    [k \in 1..Len(closes) |->
        IF k < window THEN Frac(0, 0)
        ELSE Frac(SumSeq(closes, k - window + 1, k), window)]

\* calculate_moving_averages: (sma_short, sma_long)
calculate_moving_averages(closes, short_period, long_period) ==
    [SMA_Short |-> RollingMean(closes, short_period),
     SMA_Long  |-> RollingMean(closes, long_period)]

\* calculate_macd, as far as generate_signals reads it: the order of macd and
\* signal_line per bar.  Bar 0 starts both exponential averages at the close,
\* so macd = signal_line = 0 there; the later bars are not computed (the
\* recurrences span=12, 26, 9 have no exact integer form) and take their order
\* from the pattern
calculate_macd(closes, pattern) ==
    [k \in 1..Len(closes) |->
        IF k = 1 THEN 0
        ELSE IF k <= pattern.switch THEN pattern.before
        ELSE pattern.after]

\* a quotient as the column value of a row: NaN when undefined, else its whole part
AsColumn(q) == IF q.den = 0 THEN NaN ELSE q.num \div q.den

\* the DataFrame handed to Backtester: the closes with the indicator columns
\* attached.  RSI is a whole number on every series drawn; SMA_Short and
\* SMA_Long are both counted in 1/(ShortPeriod * LongPeriod) of a currency unit,
\* so that their order is exact; MACD and MACD_Signal carry their order only
IndicatorFrame(closes, pattern) ==
    LET rsi  == calculate_rsi(closes, RSIPeriod)
        sma  == calculate_moving_averages(closes, ShortPeriod, LongPeriod)
        macd == calculate_macd(closes, pattern)
    IN  [k \in 1..Len(closes) |->
            [Close       |-> closes[k],
             RSI         |-> AsColumn(rsi[k]),
             MACD        |-> IF macd[k] = 1 THEN 1 ELSE 0,
             MACD_Signal |-> IF macd[k] = -1 THEN 1 ELSE 0,
             SMA_Short   |-> IF sma.SMA_Short[k].den = 0 THEN NaN
                             ELSE sma.SMA_Short[k].num * LongPeriod,
             SMA_Long    |-> IF sma.SMA_Long[k].den = 0 THEN NaN
                             ELSE sma.SMA_Long[k].num * ShortPeriod]]

\* the end-to-end series with their indicator columns
ScenarioSeriesSet ==
    { IndicatorFrame(closes, p) :
        closes \in {FlatCloses} \cup RisingCloses \cup OneBarCloses, p \in MACDPatterns }

\* PortfolioVal with the shares left out of the valuation
PortfolioVal_CashOnly(cap, pos, price) == cap

\* portfolio_val = capital + (position * current_price)
PortfolioVal(cap, pos, price) == cap + pos * price * PerMille

\* the point appended to self.portfolio_value
EquityPoint(date, value) == [date |-> date, value |-> value]

\* shares_to_buy = int(capital / current_price): int() truncates toward zero
SharesToBuy(cap, price) ==
    IF cap >= 0 THEN cap \div (price * PerMille)
    ELSE 0 - ((0 - cap) \div (price * PerMille))

\* cost = shares_to_buy * current_price * (1 + commission)
Cost(shares, price, comm) == shares * price * (PerMille + comm)

\* Proceeds with no commission taken off
Proceeds_NoCommission(pos, price, comm) == pos * price * PerMille

\* proceeds = position * current_price * (1 - commission)
Proceeds(pos, price, comm) == pos * price * (PerMille - comm)

\* BuyTaken without the test cost <= capital
BuyTaken_NoCostGuard(signal, pos, cap, price, comm) ==
    /\ signal = 1 /\ pos = 0
    /\ SharesToBuy(cap, price) > 0

\* BuyTaken without the test position == 0
BuyTaken_Pyramid(signal, pos, cap, price, comm) ==
    /\ signal = 1
    /\ SharesToBuy(cap, price) > 0
    /\ Cost(SharesToBuy(cap, price), price, comm) <= cap

\* BuyTaken with the affordability test off by the commission
BuyTaken_CostBeforeCommission(signal, pos, cap, price, comm) ==
    /\ signal = 1 /\ pos = 0
    /\ SharesToBuy(cap, price) > 0
    /\ Cost(SharesToBuy(cap, price), price, 0) <= cap

\* the three nested conditions under which the loop body buys
BuyTaken(signal, pos, cap, price, comm) ==
    /\ signal = 1 /\ pos = 0
    /\ SharesToBuy(cap, price) > 0
    /\ Cost(SharesToBuy(cap, price), price, comm) <= cap

\* SellTaken without the test position > 0
SellTaken_NoPositionCheck(signal, pos) == signal = -1

\* the condition under which the loop body sells
SellTaken(signal, pos) == signal = -1 /\ pos > 0

\* EnterLong that leaves entry_price at 0
EnterLong_NoEntryPrice(cap, price, comm) ==
    [capital     |-> cap - Cost(SharesToBuy(cap, price), price, comm),
     position    |-> SharesToBuy(cap, price),
     entry_price |-> 0]

\* capital, position and entry_price once the buy branch has run
EnterLong(cap, price, comm) ==
    [capital     |-> cap - Cost(SharesToBuy(cap, price), price, comm),
     position    |-> SharesToBuy(cap, price),
     entry_price |-> price]

\* ExitLong that leaves entry_price at the price of the sale
ExitLong_KeepsEntry(cap, pos, price, comm) ==
    [capital     |-> cap + Proceeds(pos, price, comm),
     position    |-> 0,
     entry_price |-> price]

\* capital, position and entry_price once the sell branch has run
ExitLong(cap, pos, price, comm) ==
    [capital     |-> cap + Proceeds(pos, price, comm),
     position    |-> 0,
     entry_price |-> 0]

\* the BUY record appended to self.trades
BuyTrade(date, price, shares, comm) ==
    [date |-> date, type |-> "BUY", price |-> price, shares |-> shares,
     commission |-> shares * price * comm]

\* SellTrade with profit_pct taken relative to the sale price
SellTrade_PctOfExit(date, price, pos, entry, comm) ==
    [date |-> date, type |-> "SELL", price |-> price, shares |-> pos,
     commission |-> pos * price * comm,
     profit     |-> (price - entry) * pos * PerMille,
     profit_pct |-> Frac((price - entry) * 100, price)]

\* the SELL record appended to self.trades, by a signal or by the final close
SellTrade(date, price, pos, entry, comm) ==
    [date |-> date, type |-> "SELL", price |-> price, shares |-> pos,
     commission |-> pos * price * comm,
     profit     |-> (price - entry) * pos * PerMille,
     profit_pct |-> Frac((price - entry) * 100, entry)]

\* t.get('profit', 0)
ProfitOf(t) == IF "profit" \in DOMAIN t THEN t.profit ELSE 0

\* the positions of a trade list whose record is of the given type
OfType(tr, type) == {k \in 1..Len(tr) : tr[k].type = type}

\* the positions of a trade list whose record carries a profit field
WithProfit(tr) == {k \in 1..Len(tr) : "profit" \in DOMAIN tr[k]}

\* Profitable that takes every trade without a loss for a win
Profitable_NotLosing(tr) == {k \in 1..Len(tr) : ProfitOf(tr[k]) >= 0}

\* profitable_trades: the positions whose profit is above 0
Profitable(tr) == {k \in 1..Len(tr) : ProfitOf(tr[k]) > 0}

\* losing_trades: the positions whose profit is below 0
Losing(tr) == {k \in 1..Len(tr) : ProfitOf(tr[k]) < 0}

\* a/b < c/d for b > 0 and d > 0, by comparing the integer parts and then the
\* inverted remainders, so that no product of two amounts is formed
RECURSIVE FracLess(_, _, _, _)
FracLess(a, b, c, d) ==
    IF a \div b # c \div d THEN a \div b < c \div d
    ELSE IF c % d = 0 THEN FALSE
    ELSE IF a % b = 0 THEN TRUE
    ELSE FracLess(d, c % d, b, a % b)

\* x < y for two quotients as numpy compares floats: False when either is nan
\* (a zero denominator); a quotient over a negative denominator is first
\* brought over the positive one
FracLt(x, y) ==
    /\ x.den # 0 /\ y.den # 0
    /\ FracLess(IF x.den > 0 THEN x.num ELSE 0 - x.num,
                IF x.den > 0 THEN x.den ELSE 0 - x.den,
                IF y.den > 0 THEN y.num ELSE 0 - y.num,
                IF y.den > 0 THEN y.den ELSE 0 - y.den)

\* the sum of the profit fields of a trade list at the given positions
RECURSIVE SumProfit(_, _)
SumProfit(tr, ks) ==
    IF ks = {} THEN 0
    ELSE LET k == CHOOSE x \in ks : TRUE
         IN  ProfitOf(tr[k]) + SumProfit(tr, ks \ {k})

\* np.mean([t['profit'] for t in ...]) if ... else 0
MeanProfit(tr, ks) ==
    IF ks = {} THEN Frac(0, 1) ELSE Frac(SumProfit(tr, ks), Cardinality(ks))

\* portfolio_values = [pv['value'] for pv in self.portfolio_value]
ValuesOf(pv) == [k \in 1..Len(pv) |-> pv[k].value]

\* Peaks that takes the highest value of the whole curve at every bar
Peaks_Whole(values) ==
    [k \in 1..Len(values) |->
        CHOOSE v \in {values[j] : j \in 1..Len(values)} :
            \A j \in 1..Len(values) : values[j] <= v]

\* peak = np.maximum.accumulate(portfolio_values)
Peaks(values) ==
    [k \in 1..Len(values) |->
        CHOOSE v \in {values[j] : j \in 1..k} : \A j \in 1..k : values[j] <= v]

\* drawdown = (peak - portfolio_values) / peak * 100
Drawdowns(values) ==
    LET peak == Peaks(values)
    IN  [k \in 1..Len(values) |-> Frac((peak[k] - values[k]) * 100, peak[k])]

\* np.max(drawdown) of a non-empty array: nan as soon as one entry is nan, else
\* the first entry that no entry exceeds
MaxOf(drawdown) ==
    IF \E k \in 1..Len(drawdown) : drawdown[k].den = 0 THEN Frac(0, 0)
    ELSE drawdown[CHOOSE k \in 1..Len(drawdown) :
                     \A j \in 1..Len(drawdown) : ~FracLt(drawdown[k], drawdown[j])]

\* max_drawdown = np.max(drawdown) if len(drawdown) > 0 else 0
MaxDrawdown(values) ==
    IF Len(values) > 0 THEN MaxOf(Drawdowns(values)) ELSE Frac(0, 1)

\* the bars whose pct_change survives dropna(): all but bar 0 and the bars whose
\* value and previous value are both 0 (0/0 is nan)
ReturnBars(values) ==
    {k \in 2..Len(values) : ~(values[k] = 0 /\ values[k - 1] = 0)}

\* the returns of bars j and k are the same number
SameReturn(values, j, k) ==
    \/ values[j] = values[j - 1] /\ values[k] = values[k - 1]
    \/ /\ values[j - 1] # 0 /\ values[k - 1] # 0
       /\ ~FracLt(Frac(values[j], values[j - 1]), Frac(values[k], values[k - 1]))
       /\ ~FracLt(Frac(values[k], values[k - 1]), Frac(values[j], values[j - 1]))

\* SharpeRatio without the two early returns on the number of equity points
\* and of returns: the std of fewer than 2 returns is nan
SharpeRatio_NoCountTests(values) ==
    LET returns == ReturnBars(values)
    IN  IF Cardinality(returns) <= 1 THEN "nan"
        ELSE IF \A j \in returns, k \in returns : SameReturn(values, j, k) THEN "0.0"
        ELSE "computed"

\* _calculate_sharpe_ratio, by the way its value is arrived at: "0.0" is one of
\* the two early returns; "nan" is sqrt(252) * mean / std with the std of a
\* single return (the sample std over n - 1 = 0) or of an infinite return;
\* "computed" is sqrt(252) * mean / std over a non-zero std
SharpeRatio(values) ==
    LET returns == ReturnBars(values)
    IN  IF Len(values) < 2 THEN "0.0"
        ELSE IF returns = {} THEN "0.0"
        ELSE IF Cardinality(returns) = 1 \/ \E k \in returns : values[k - 1] = 0 THEN "nan"
        ELSE IF \A j \in returns, k \in returns : SameReturn(values, j, k) THEN "0.0"
        ELSE "computed"

\* latest[name] = float(series.iloc[-1]) for a non-empty series
Latest(series) == series[Len(series)]

\* the RSI entry of signals['signals']
RSILabel(rsi) ==
    IF FracLt(rsi, Frac(30, 1)) THEN "OVERSOLD (Buy Signal)"
    ELSE IF FracLt(Frac(70, 1), rsi) THEN "OVERBOUGHT (Sell Signal)"
    ELSE "NEUTRAL"

\* the MACD entry of signals['signals'], from the order of MACD and its signal line
MACDLabel(order) ==
    IF order = 1 THEN "BULLISH (Buy Signal)" ELSE "BEARISH (Sell Signal)"

\* the MA_Crossover entry of signals['signals']
MALabel(sma_short, sma_long) ==
    IF FracLt(sma_long, sma_short) THEN "BULLISH (Buy Signal)" ELSE "BEARISH (Sell Signal)"

\* what calculate_all_indicators leaves in the object: every indicator at its
\* default periods (the Bollinger columns are entered by name only)
AllIndicators(t, pattern) ==
    [t EXCEPT !.computed   = @ \cup {"RSI", "MACD", "MACD_Signal", "MACD_Histogram",
                                     "SMA_Short", "SMA_Long",
                                     "BB_Upper", "BB_Middle", "BB_Lower"},
              !.rsi_period = RSIPeriod,
              !.RSI        = calculate_rsi(t.data, RSIPeriod),
              !.MACD       = calculate_macd(t.data, pattern),
              !.SMA_Short  = calculate_moving_averages(t.data, ShortPeriod, LongPeriod).SMA_Short,
              !.SMA_Long   = calculate_moving_averages(t.data, ShortPeriod, LongPeriod).SMA_Long]

\* the dictionary get_latest_signals returns for an object with indicators: the
\* names with a latest value, the latest values the labels are made from, and
\* the labels ("absent" for a key that is not set)
LatestSignals(t) ==
    LET has(name) == name \in t.computed /\ Len(t.data) > 0
    IN  [names      |-> {name \in t.computed : Len(t.data) > 0},
         indicators |-> [RSI       |-> IF has("RSI") THEN Latest(t.RSI) ELSE Frac(0, 0),
                         MACD      |-> IF has("MACD") THEN Latest(t.MACD) ELSE 0,
                         SMA_Short |-> IF has("SMA_Short") THEN Latest(t.SMA_Short) ELSE Frac(0, 0),
                         SMA_Long  |-> IF has("SMA_Long") THEN Latest(t.SMA_Long) ELSE Frac(0, 0)],
         signals    |-> [RSI  |-> IF has("RSI") THEN RSILabel(Latest(t.RSI)) ELSE "absent",
                         MACD |-> IF has("MACD") /\ has("MACD_Signal")
                                  THEN MACDLabel(Latest(t.MACD)) ELSE "absent",
                         MA_Crossover |-> IF has("SMA_Short") /\ has("SMA_Long")
                                          THEN MALabel(Latest(t.SMA_Short), Latest(t.SMA_Long))
                                          ELSE "absent"]]

\* FinalValue read from the first equity point
FinalValue_First(pv, ic) == IF Len(pv) > 0 THEN pv[1].value ELSE ic

\* final_value = self.portfolio_value[-1]['value'] if self.portfolio_value else self.initial_capital
FinalValue(pv, ic) == IF Len(pv) > 0 THEN pv[Len(pv)].value ELSE ic

\* calculate_metrics: the report of a run
calculate_metrics(pv, tr, ic) ==
    LET final_value  == FinalValue(pv, ic)
        total_return == final_value - ic
    IN  [initial_capital   |-> ic,
         final_value       |-> final_value,
         total_return      |-> total_return,
         total_return_pct  |-> Frac(total_return * 100, ic),
         total_trades      |-> Len(tr),
         buy_trades        |-> Cardinality(OfType(tr, "BUY")),
         sell_trades       |-> Cardinality(OfType(tr, "SELL")),
         profitable_trades |-> Cardinality(Profitable(tr)),
         losing_trades     |-> Cardinality(Losing(tr)),
         win_rate          |-> IF Len(tr) > 0
                               THEN Frac(Cardinality(Profitable(tr)) * 100,
                                         Cardinality(WithProfit(tr)))
                               ELSE Frac(0, 1),
         avg_profit        |-> MeanProfit(tr, Profitable(tr)),
         avg_loss          |-> MeanProfit(tr, Losing(tr)),
         max_drawdown      |-> MaxDrawdown(ValuesOf(pv)),
         sharpe_ratio      |-> SharpeRatio(ValuesOf(pv))]

\* ------------------------------------------------------------------ actions
\* Failed that takes an empty frame for data
Failed_EmptyIsData(outcome) == outcome.kind # "frame"

\* the attempt did not pass `self.data is not None and not self.data.empty`:
\* the call raised, or returned None, or returned an empty frame
Failed(outcome) == outcome.kind # "frame" \/ outcome.rows = 0

\* no TechnicalIndicators object has been built
NoIndicators ==
    [data |-> <<>>, computed |-> {}, rsi_period |-> 0, RSI |-> <<>>, MACD |-> <<>>,
     SMA_Short |-> <<>>, SMA_Long |-> <<>>, signals |-> <<>>]

\* no DataCollector object has been built
NoCollector ==
    [pc |-> "none", symbol |-> "", retry_count |-> 0, outcomes |-> <<>>,
     data |-> [kind |-> "None", rows |-> 0], result |-> [kind |-> "pending", rows |-> 0]]

\* no second Backtester has been built
NoInstance == [pc |-> "none"]

\* Backtester(d, ic): the state after construction; the instance holds a copy
\* of the caller's DataFrame
Constructed(d, ic) ==
    /\ data = d
    /\ initial_capital = ic
    /\ trades = <<>>
    /\ portfolio_value = <<>>
    /\ pc = "idle"
    /\ strategy_type = ""
    /\ commission = 0
    /\ df = <<>>
    /\ i = 0
    /\ capital = 0
    /\ position = 0
    /\ entry_price = 0
    /\ report = <<>>
    /\ returned = <<>>
    /\ input = d
    /\ ti = NoIndicators
    /\ dc = NoCollector
    /\ second = NoInstance

\* a Backtester built on a series of SeriesSet
Init == \E d \in SeriesSet, ic \in InitialCapitals : Constructed(d, ic)

\* BeginRun that keeps self.trades and self.portfolio_value of the call before
BeginRun_KeepsLogs(s, c) ==
    /\ strategy_type' = s
    /\ commission' = c
    /\ df' = generate_signals(data, s)
    /\ capital' = initial_capital
    /\ position' = 0
    /\ entry_price' = 0
    /\ trades' = trades
    /\ portfolio_value' = portfolio_value
    /\ i' = 0
    /\ pc' = "loop"

\* run_backtest(s, c) up to the loop: signals generated, position state and
\* both logs reset
BeginRun(s, c) ==
    /\ strategy_type' = s
    /\ commission' = c
    /\ df' = generate_signals(data, s)
    /\ capital' = initial_capital
    /\ position' = 0
    /\ entry_price' = 0
    /\ trades' = <<>>
    /\ portfolio_value' = <<>>
    /\ i' = 0
    /\ pc' = "loop"

\* the first call of run_backtest on the instance
Start ==
    /\ pc = "idle"
    /\ \E s \in Strategies, c \in Commissions : BeginRun(s, c)
    /\ UNCHANGED <<data, initial_capital, report, returned, input, ti, dc, second>>

\* one iteration of the loop over the bars
Bar ==
    /\ pc = "loop"
    /\ i < Len(df)
    /\ LET current_price == df[i + 1].Close
           signal        == df[i + 1].signal
           portfolio_val == PortfolioVal(capital, position, current_price)
       IN  /\ portfolio_value' = Append(portfolio_value, EquityPoint(i, portfolio_val))
           /\ IF BuyTaken(signal, position, capital, current_price, commission) THEN
                  LET after == EnterLong(capital, current_price, commission) IN
                  /\ capital' = after.capital
                  /\ position' = after.position
                  /\ entry_price' = after.entry_price
                  /\ trades' = Append(trades,
                                  BuyTrade(i, current_price, after.position, commission))
              ELSE IF SellTaken(signal, position) THEN
                  LET after == ExitLong(capital, position, current_price, commission) IN
                  /\ capital' = after.capital
                  /\ position' = after.position
                  /\ entry_price' = after.entry_price
                  /\ trades' = Append(trades,
                                  SellTrade(i, current_price, position, entry_price, commission))
              ELSE UNCHANGED <<capital, position, entry_price, trades>>
    /\ i' = i + 1
    /\ UNCHANGED <<data, initial_capital, pc, strategy_type, commission, df, report, returned, input, ti, dc, second>>

\* ClosePosition that closes only on a sell signal of the last bar
ClosePosition_OnlyOnSell ==
    /\ pc = "loop"
    /\ i = Len(df)
    /\ IF position > 0 /\ df[Len(df)].signal = -1 THEN
           LET final_price == df[Len(df)].Close IN
           /\ capital' = capital + Proceeds(position, final_price, commission)
           /\ trades' = Append(trades,
                           SellTrade(Len(df) - 1, final_price, position, entry_price, commission))
       ELSE UNCHANGED <<capital, trades>>
    /\ pc' = "metrics"
    /\ UNCHANGED <<data, initial_capital, portfolio_value, strategy_type, commission,
                   df, i, position, entry_price, report, returned, input, ti, dc, second>>

\* ClosePosition that records an equity point for the final close
ClosePosition_ExtraPoint ==
    /\ pc = "loop"
    /\ i = Len(df)
    /\ IF position > 0 THEN
           LET final_price == df[Len(df)].Close IN
           /\ capital' = capital + Proceeds(position, final_price, commission)
           /\ trades' = Append(trades,
                           SellTrade(Len(df) - 1, final_price, position, entry_price, commission))
           /\ portfolio_value' = Append(portfolio_value,
                           EquityPoint(Len(df) - 1,
                               capital + Proceeds(position, final_price, commission)))
       ELSE UNCHANGED <<capital, trades, portfolio_value>>
    /\ pc' = "metrics"
    /\ UNCHANGED <<data, initial_capital, strategy_type, commission,
                   df, i, position, entry_price, report, returned, input, ti, dc, second>>

\* after the loop: close any remaining position at the last close
ClosePosition ==
    /\ pc = "loop"
    /\ i = Len(df)
    /\ IF position > 0 THEN
           LET final_price == df[Len(df)].Close IN
           /\ capital' = capital + Proceeds(position, final_price, commission)
           /\ trades' = Append(trades,
                           SellTrade(Len(df) - 1, final_price, position, entry_price, commission))
       ELSE UNCHANGED <<capital, trades>>
    /\ pc' = "metrics"
    /\ UNCHANGED <<data, initial_capital, portfolio_value, strategy_type, commission,
                   df, i, position, entry_price, report, returned, input, ti, dc, second>>

\* the two divisions of calculate_metrics between Python numbers, which raise
\* on a zero divisor: total_return / initial_capital when final_value is
\* initial_capital itself (an empty equity curve; a value read from the series
\* is a numpy float, whose division gives nan or inf), and the win_rate
\* quotient of two len() when no trade carries a profit
MetricsRaise(pv, tr, ic) ==
    \/ pv = <<>> /\ ic = 0
    \/ tr # <<>> /\ WithProfit(tr) = {}

\* return self.calculate_metrics(): the report, or the ZeroDivisionError
\* leaving run_backtest
CalculateMetrics ==
    /\ pc = "metrics"
    /\ IF MetricsRaise(portfolio_value, trades, initial_capital)
       THEN report' = report /\ pc' = "ZeroDivisionError"
       ELSE /\ report' = <<calculate_metrics(portfolio_value, trades, initial_capital)>>
            /\ pc' = "done"
    /\ UNCHANGED <<data, initial_capital, trades, portfolio_value, strategy_type,
                   commission, df, i, capital, position, entry_price, returned, input, ti, dc, second>>

Next == Start \/ Bar \/ ClosePosition \/ CalculateMetrics

Spec == Init /\ [][Next]_vars

\* a Backtester built on a series whose last row has independent indicator columns
InitWide == \E d \in WideSeriesSet, ic \in InitialCapitals : Constructed(d, ic)

SpecWide == InitWide /\ [][Next]_vars

\* a Backtester built on an end-to-end series
InitScenario == \E d \in ScenarioSeriesSet : Constructed(d, ScenarioCapital)

SpecScenario == InitScenario /\ [][Next]_vars

\* initial_capital values the constructor accepts: none is refused
ConfigCapitals == {0 - 10 * PerMille, 0, 10 * PerMille}

\* commission rates run_backtest accepts, in thousandths: none is refused
\* (-0.001, 0, 0.001, 1.0, 1.5)
ConfigCommissions == {0 - 1, 0, 1, PerMille, PerMille + 500}

\* the series of at most two rows of Rows
ShortSeriesSet == UNION { [1..n -> Rows] : n \in 0..2 }

\* a Backtester built with any initial_capital
InitConfig == \E d \in ShortSeriesSet, ic \in ConfigCapitals : Constructed(d, ic)

\* the first call of run_backtest, with any commission
StartAny ==
    /\ pc = "idle"
    /\ \E s \in Strategies, c \in ConfigCommissions : BeginRun(s, c)
    /\ UNCHANGED <<data, initial_capital, report, returned, input, ti, dc, second>>

NextConfig == StartAny \/ Bar \/ ClosePosition \/ CalculateMetrics

SpecConfig == InitConfig /\ [][NextConfig]_vars

\* what a finished call of run_backtest leaves to the caller
Returned ==
    [strategy_type |-> strategy_type, commission |-> commission, trades |-> trades,
     portfolio_value |-> portfolio_value, report |-> report]

\* a second call of run_backtest on the same instance, once the first has returned
RunAgain ==
    /\ pc = "done"
    /\ returned = <<>>
    /\ returned' = <<Returned>>
    /\ report' = <<>>
    /\ \E s \in Strategies, c \in Commissions : BeginRun(s, c)
    /\ UNCHANGED <<data, initial_capital, input, ti, dc, second>>

\* a Backtester built on a short series
InitAgain == \E d \in ShortSeriesSet, ic \in InitialCapitals : Constructed(d, ic)

NextAgain == Start \/ Bar \/ ClosePosition \/ CalculateMetrics \/ RunAgain

SpecAgain == InitAgain /\ [][NextAgain]_vars

\* no Backtester has been built
NoBacktester ==
    /\ data = <<>> /\ initial_capital = 0 /\ trades = <<>> /\ portfolio_value = <<>>
    /\ pc = "none" /\ strategy_type = "" /\ commission = 0 /\ df = <<>> /\ i = 0
    /\ capital = 0 /\ position = 0 /\ entry_price = 0 /\ report = <<>>
    /\ returned = <<>> /\ input = <<>>

\* the variables of the Backtester instances
backtesterVars ==
    <<data, initial_capital, trades, portfolio_value, pc, strategy_type, commission,
      df, i, capital, position, entry_price, report, returned, input, second>>

\* TechnicalIndicators(closes): the object holds a copy of the series and no indicator
InitIndicators ==
    /\ NoBacktester /\ dc = NoCollector /\ second = NoInstance
    /\ \E closes \in CloseSeriesSet : ti = [NoIndicators EXCEPT !.data = closes]

\* calculate_rsi(period)
CalculateRSI ==
    /\ \E period \in RSIPeriods \cup {RSIPeriod} :
          ti' = [ti EXCEPT !.computed   = @ \cup {"RSI"},
                           !.rsi_period = period,
                           !.RSI        = calculate_rsi(ti.data, period)]
    /\ UNCHANGED <<backtesterVars, dc>>

\* calculate_macd(), with the order of the two lines after bar 0 left open
CalculateMACD ==
    /\ \E pattern \in EarlyPatterns :
          ti' = [ti EXCEPT !.computed = @ \cup {"MACD", "MACD_Signal", "MACD_Histogram"},
                           !.MACD     = calculate_macd(ti.data, pattern)]
    /\ UNCHANGED <<backtesterVars, dc>>

\* calculate_moving_averages(short_period, long_period)
CalculateMovingAverages ==
    /\ \E periods \in MAPeriods \cup { <<ShortPeriod, LongPeriod>> } :
          LET sma == calculate_moving_averages(ti.data, periods[1], periods[2])
          IN  ti' = [ti EXCEPT !.computed  = @ \cup {"SMA_Short", "SMA_Long"},
                               !.SMA_Short = sma.SMA_Short,
                               !.SMA_Long  = sma.SMA_Long]
    /\ UNCHANGED <<backtesterVars, dc>>

\* get_latest_signals(): computes every indicator first when none has been
\* computed, then labels the latest values
GetLatestSignals ==
    /\ \E pattern \in EarlyPatterns :
          LET t == IF ti.computed = {} THEN AllIndicators(ti, pattern) ELSE ti
          IN  ti' = [t EXCEPT !.signals = <<LatestSignals(t)>>]
    /\ UNCHANGED <<backtesterVars, dc>>

NextIndicators == CalculateRSI \/ CalculateMACD \/ CalculateMovingAverages \/ GetLatestSignals

SpecIndicators == InitIndicators /\ [][NextIndicators]_vars

\* DataCollector(symbol): self.data is None
InitCollector ==
    /\ NoBacktester /\ ti = NoIndicators /\ second = NoInstance
    /\ \E symbol \in Symbols : dc = [NoCollector EXCEPT !.pc = "idle", !.symbol = symbol]

\* fetch_data() up to the loop
FetchData ==
    /\ dc.pc = "idle"
    /\ dc' = [dc EXCEPT !.pc = "loop", !.retry_count = 0]
    /\ UNCHANGED <<backtesterVars, ti>>

\* one iteration of the retry loop: ticker.history is called once; a non-empty
\* frame is converted and returned, anything else adds one to retry_count.
\* self.data takes whatever ticker.history returned, and keeps its value when
\* the call raised
Attempt ==
    /\ dc.pc = "loop"
    /\ dc.retry_count < MaxRetries
    /\ \E outcome \in FetchOutcomes :
          dc' = [dc EXCEPT
                   !.outcomes    = Append(@, outcome),
                   !.data        = IF outcome.kind = "raise" THEN @ ELSE outcome,
                   !.retry_count = IF Failed(outcome) THEN @ + 1 ELSE @,
                   !.result      = IF Failed(outcome) THEN @ ELSE outcome,
                   !.pc          = IF Failed(outcome) THEN "loop" ELSE "returned"]
    /\ UNCHANGED <<backtesterVars, ti>>

\* the loop condition fails: return None
GiveUp ==
    /\ dc.pc = "loop"
    /\ dc.retry_count >= MaxRetries
    /\ dc' = [dc EXCEPT !.result = [kind |-> "None", rows |-> 0], !.pc = "returned"]
    /\ UNCHANGED <<backtesterVars, ti>>

NextCollector == FetchData \/ Attempt \/ GiveUp

SpecCollector == InitCollector /\ [][NextCollector]_vars

\* Backtester(d, ic) as one value: the attributes of the instance and the
\* locals of its run_backtest call
NewInstance(d, ic) ==
    [pc |-> "idle", data |-> d, initial_capital |-> ic, strategy_type |-> "",
     commission |-> 0, df |-> <<>>, i |-> 0, capital |-> 0, position |-> 0,
     entry_price |-> 0, trades |-> <<>>, portfolio_value |-> <<>>, report |-> <<>>]

\* run_backtest(s, c) of the instance up to the loop
BeginStep(b, s, c) ==
    [b EXCEPT !.strategy_type = s, !.commission = c,
              !.df = generate_signals(b.data, s),
              !.capital = b.initial_capital, !.position = 0, !.entry_price = 0,
              !.trades = <<>>, !.portfolio_value = <<>>, !.i = 0, !.pc = "loop"]

\* BarStep that charges no commission on a purchase
BarStep_FreePurchase(b) ==
    LET current_price == b.df[b.i + 1].Close
        signal        == b.df[b.i + 1].signal
        point         == EquityPoint(b.i, PortfolioVal(b.capital, b.position, current_price))
        bought        == EnterLong(b.capital, current_price, 0)
        sold          == ExitLong(b.capital, b.position, current_price, b.commission)
    IN  IF BuyTaken(signal, b.position, b.capital, current_price, b.commission) THEN
            [b EXCEPT !.portfolio_value = Append(@, point), !.i = @ + 1,
                      !.capital = bought.capital, !.position = bought.position,
                      !.entry_price = bought.entry_price,
                      !.trades = Append(@, BuyTrade(b.i, current_price, bought.position,
                                                    b.commission))]
        ELSE IF SellTaken(signal, b.position) THEN
            [b EXCEPT !.portfolio_value = Append(@, point), !.i = @ + 1,
                      !.capital = sold.capital, !.position = sold.position,
                      !.entry_price = sold.entry_price,
                      !.trades = Append(@, SellTrade(b.i, current_price, b.position,
                                                     b.entry_price, b.commission))]
        ELSE [b EXCEPT !.portfolio_value = Append(@, point), !.i = @ + 1]

\* one iteration of the instance's loop over the bars
BarStep(b) ==
    LET current_price == b.df[b.i + 1].Close
        signal        == b.df[b.i + 1].signal
        point         == EquityPoint(b.i, PortfolioVal(b.capital, b.position, current_price))
        bought        == EnterLong(b.capital, current_price, b.commission)
        sold          == ExitLong(b.capital, b.position, current_price, b.commission)
    IN  IF BuyTaken(signal, b.position, b.capital, current_price, b.commission) THEN
            [b EXCEPT !.portfolio_value = Append(@, point), !.i = @ + 1,
                      !.capital = bought.capital, !.position = bought.position,
                      !.entry_price = bought.entry_price,
                      !.trades = Append(@, BuyTrade(b.i, current_price, bought.position,
                                                    b.commission))]
        ELSE IF SellTaken(signal, b.position) THEN
            [b EXCEPT !.portfolio_value = Append(@, point), !.i = @ + 1,
                      !.capital = sold.capital, !.position = sold.position,
                      !.entry_price = sold.entry_price,
                      !.trades = Append(@, SellTrade(b.i, current_price, b.position,
                                                     b.entry_price, b.commission))]
        ELSE [b EXCEPT !.portfolio_value = Append(@, point), !.i = @ + 1]

\* the instance closes any remaining position at the last close
CloseStep(b) ==
    IF b.position > 0 THEN
        LET final_price == b.df[Len(b.df)].Close
        IN  [b EXCEPT !.capital = @ + Proceeds(b.position, final_price, b.commission),
                      !.trades = Append(@, SellTrade(Len(b.df) - 1, final_price, b.position,
                                                     b.entry_price, b.commission)),
                      !.pc = "metrics"]
    ELSE [b EXCEPT !.pc = "metrics"]

\* the instance returns self.calculate_metrics()
MetricsStep(b) ==
    IF MetricsRaise(b.portfolio_value, b.trades, b.initial_capital)
    THEN [b EXCEPT !.pc = "ZeroDivisionError"]
    ELSE [b EXCEPT !.report = <<calculate_metrics(b.portfolio_value, b.trades,
                                                  b.initial_capital)>>,
                   !.pc = "done"]

\* the next step of a started run
StepOf(b) ==
    IF b.pc = "loop" /\ b.i < Len(b.df) THEN BarStep(b)
    ELSE IF b.pc = "loop" THEN CloseStep(b)
    ELSE IF b.pc = "metrics" THEN MetricsStep(b)
    ELSE b

\* the run carried to its end with no other run in between
RECURSIVE RunAlone(_)
RunAlone(b) == IF b.pc \in {"loop", "metrics"} THEN RunAlone(StepOf(b)) ELSE b

\* the variables of the first instance, without the caller's series
firstVars ==
    <<data, initial_capital, trades, portfolio_value, pc, strategy_type, commission,
      df, i, capital, position, entry_price, report, returned>>

\* the caller builds two Backtesters from one series
InitTwo ==
    \E d \in ShortSeriesSet, ic \in InitialCapitals :
        /\ data = d /\ initial_capital = ic /\ trades = <<>> /\ portfolio_value = <<>>
        /\ pc = "idle" /\ strategy_type = "" /\ commission = 0 /\ df = <<>> /\ i = 0
        /\ capital = 0 /\ position = 0 /\ entry_price = 0 /\ report = <<>>
        /\ returned = <<>> /\ input = d
        /\ ti = NoIndicators /\ dc = NoCollector
        /\ second = NewInstance(d, ic)

\* the second instance's run_backtest call begins
Start2 ==
    /\ second.pc = "idle"
    /\ \E s \in Strategies, c \in Commissions : second' = BeginStep(second, s, c)
    /\ UNCHANGED <<firstVars, input, ti, dc>>

\* the second instance handles one bar
Bar2 ==
    /\ second.pc = "loop" /\ second.i < Len(second.df)
    /\ second' = BarStep(second)
    /\ UNCHANGED <<firstVars, input, ti, dc>>

\* the second instance closes its position
ClosePosition2 ==
    /\ second.pc = "loop" /\ second.i = Len(second.df)
    /\ second' = CloseStep(second)
    /\ UNCHANGED <<firstVars, input, ti, dc>>

\* the second instance returns its report
CalculateMetrics2 ==
    /\ second.pc = "metrics"
    /\ second' = MetricsStep(second)
    /\ UNCHANGED <<firstVars, input, ti, dc>>

NextTwo ==
    \/ Start \/ Bar \/ ClosePosition \/ CalculateMetrics
    \/ Start2 \/ Bar2 \/ ClosePosition2 \/ CalculateMetrics2

SpecTwo == InitTwo /\ [][NextTwo]_vars

\* ------------------------------------------------- properties of the run
\* the loop is about to handle bar i
AtBar == pc = "loop" /\ i < Len(df)

\* the loop has handled at least one bar; the last one handled is df[i]
AfterBar == pc = "loop" /\ i > 0

\* the loop is over and the final close has not run yet
AtClose == pc = "loop" /\ i = Len(df)

\* the position state and the trade log are left as they are
PositionUnchanged == UNCHANGED <<capital, position, entry_price, trades>>

\* shares bought minus shares sold over a trade log
RECURSIVE SharesInLog(_)
SharesInLog(tr) ==
    IF tr = <<>> THEN 0
    ELSE SharesInLog(SubSeq(tr, 1, Len(tr) - 1))
         + (IF tr[Len(tr)].type = "BUY" THEN tr[Len(tr)].shares ELSE 0 - tr[Len(tr)].shares)

\* C1 as stated: on a bar with a BUY signal and no shares held, with
\* shares = floor(cash / close): if shares = 0 nothing changes, otherwise the
\* position is always entered (shares_held = shares, cash reduced by
\* shares*close*(1+commission), entry_price = close, one BUY trade appended).
C1_AlwaysEnters ==
    [][ (AtBar /\ df[i + 1].signal = 1 /\ position = 0) =>
          LET close  == df[i + 1].Close
              shares == capital \div (close * PerMille)
          IN  IF shares = 0 THEN PositionUnchanged
              ELSE /\ position' = shares
                   /\ capital' = capital - shares * close * (PerMille + commission)
                   /\ entry_price' = close
                   /\ trades' = Append(trades,
                         [date |-> i, type |-> "BUY", price |-> close, shares |-> shares,
                          commission |-> shares * close * commission]) ]_vars

\* C1 amended: on a bar with a BUY signal and no shares held, with
\* shares = floor(cash / close): if shares = 0, or if
\* shares*close*(1+commission) exceeds the cash, nothing changes; otherwise the
\* position is entered: shares_held = shares, cash reduced by
\* shares*close*(1+commission), entry_price = close, and exactly one BUY trade
\* with commission = shares*close*commission is appended.
C1_EntersWhenAffordable ==
    [][ (AtBar /\ df[i + 1].signal = 1 /\ position = 0) =>
          LET close  == df[i + 1].Close
              shares == capital \div (close * PerMille)
          IN  IF shares = 0 \/ shares * close * (PerMille + commission) > capital
              THEN PositionUnchanged
              ELSE /\ position' = shares
                   /\ capital' = capital - shares * close * (PerMille + commission)
                   /\ entry_price' = close
                   /\ trades' = Append(trades,
                         [date |-> i, type |-> "BUY", price |-> close, shares |-> shares,
                          commission |-> shares * close * commission]) ]_vars

\* C1 witness: a bar with a BUY signal has just been handled with a commission
\* charged, and the position was entered on it.
C1_Witness ==
    /\ AfterBar /\ df[i].signal = 1 /\ commission > 0
    /\ position > 0
    /\ Len(trades) > 0 /\ trades[Len(trades)].type = "BUY"
    /\ trades[Len(trades)].date = i - 1

\* C2: on a bar with a SELL signal while shares are held, cash grows by
\* shares_held*close*(1-commission); exactly one SELL trade is appended with
\* shares = shares_held, profit = (close - entry)*shares_held and
\* profit_pct = (close - entry)/entry*100, entry being the price of the BUY
\* trade that opened the position; shares_held becomes 0.
C2_SellOnSignal ==
    [][ (AtBar /\ df[i + 1].signal = -1 /\ position > 0) =>
          LET close == df[i + 1].Close IN
          /\ capital' = capital + position * close * (PerMille - commission)
          /\ position' = 0
          /\ Len(trades) > 0
          /\ trades[Len(trades)].type = "BUY"
          /\ Len(trades') = Len(trades) + 1
          /\ SubSeq(trades', 1, Len(trades)) = trades
          /\ LET buy  == trades[Len(trades)]
                 sell == trades'[Len(trades')]
             IN  /\ sell.type = "SELL"
                 /\ sell.date = i
                 /\ sell.price = close
                 /\ sell.shares = position
                 /\ sell.shares = buy.shares
                 /\ sell.profit = (close - buy.price) * position * PerMille
                 /\ sell.profit_pct.den # 0
                 /\ sell.profit_pct.num * buy.price
                      = (close - buy.price) * 100 * sell.profit_pct.den ]_vars

\* C2 witness: a bar with a SELL signal has just closed a position at a price
\* other than its entry price.
C2_Witness ==
    /\ AfterBar /\ df[i].signal = -1
    /\ position = 0
    /\ Len(trades) > 1 /\ trades[Len(trades)].type = "SELL"
    /\ trades[Len(trades)].date = i - 1
    /\ trades[Len(trades)].profit # 0

\* C3: when shares are still held after the last bar, exactly one further SELL
\* trade is appended, dated at the last bar and priced at the last close, with
\* the fields and the cash credit of a signal-driven SELL, whatever the last
\* bar's signal; so once the final close has run the trade log holds as many
\* shares sold as bought and, when not empty, ends with a SELL.  (Shares held
\* are read off the trade log: the local share counter is dead after the
\* final close and the code does not clear it.)
C3_ForcedClose ==
    /\ [][ (AtClose /\ position > 0) =>
             LET close == df[Len(df)].Close IN
             /\ capital' = capital + position * close * (PerMille - commission)
             /\ trades' = Append(trades,
                   [date |-> Len(df) - 1, type |-> "SELL", price |-> close,
                    shares |-> position, commission |-> position * close * commission,
                    profit |-> (close - entry_price) * position * PerMille,
                    profit_pct |-> Frac((close - entry_price) * 100, entry_price)])
             /\ portfolio_value' = portfolio_value ]_vars
    /\ [](pc \in {"metrics", "done"} =>
             /\ SharesInLog(trades) = 0
             /\ (trades # <<>> => trades[Len(trades)].type = "SELL"))

\* C3 witness: a run has ended whose last bar did not carry a SELL signal and
\* whose open position was closed by the final close.
C3_Witness ==
    /\ pc = "done"
    /\ position > 0
    /\ df[Len(df)].signal # -1
    /\ trades[Len(trades)].type = "SELL"
    /\ trades[Len(trades)].date = Len(df) - 1

\* C4: on a bar with a HOLD signal, a BUY signal while shares are held, or a
\* SELL signal while no shares are held, cash, shares_held, entry_price and
\* the trade log are unchanged; the bar appends its equity point and nothing
\* else changes.
C4_NoOpBars ==
    [][ (AtBar /\ (\/ df[i + 1].signal = 0
                   \/ (df[i + 1].signal = 1 /\ position > 0)
                   \/ (df[i + 1].signal = -1 /\ position = 0))) =>
          /\ PositionUnchanged
          /\ Len(portfolio_value') = Len(portfolio_value) + 1
          /\ SubSeq(portfolio_value', 1, Len(portfolio_value)) = portfolio_value
          /\ UNCHANGED <<data, initial_capital, df, strategy_type, commission, report>> ]_vars

\* C4 witness: a bar with a BUY signal has just been handled while shares
\* bought on an earlier bar were held, with cash left that could buy more.
C4_Witness ==
    /\ AfterBar /\ df[i].signal = 1
    /\ position > 0
    /\ trades[Len(trades)].date < i - 1
    /\ capital >= df[i].Close * (PerMille + commission)

\* C5: with initial_capital > 0, positive closes and commission in [0,1), cash
\* is never negative and shares_held is a non-negative integer, in every state
\* of a run and for every signal sequence.
C5_CashAndSharesNonNegative ==
    (/\ initial_capital > 0
     /\ \A k \in 1..Len(data) : data[k].Close > 0
     /\ commission >= 0 /\ commission < PerMille)
    => (capital >= 0 /\ position \in Nat)

\* C5 witness: a BUY has spent the cash down to exactly 0.
C5_Witness ==
    /\ pc = "loop"
    /\ position > 0
    /\ capital = 0
    /\ initial_capital > 0

\* C6: the trade log alternates BUY, SELL, BUY, SELL, ... starting with a BUY;
\* a BUY is recorded only while no shares are held and a SELL only while
\* shares are held.
C6_TradesAlternate ==
    /\ [](\A k \in 1..Len(trades) :
            trades[k].type = (IF k % 2 = 1 THEN "BUY" ELSE "SELL"))
    /\ [][ Len(trades') > Len(trades) =>
             /\ Len(trades') = Len(trades) + 1
             /\ (trades'[Len(trades')].type = "BUY" => position = 0)
             /\ (trades'[Len(trades')].type = "SELL" => position > 0) ]_vars

\* C6 witness: a second position has been opened after a first one was closed.
C6_Witness ==
    /\ Len(trades) = 3
    /\ trades[3].type = "BUY"
    /\ position > 0

\* C7 as stated: the equity point of a bar equals cash + shares_held*close
\* with cash and shares_held taken once the bar's signal has been handled.
C7_EquityAfterTrade ==
    AfterBar =>
        portfolio_value[i].value = capital + position * df[i].Close * PerMille

\* C7 amended: the equity point of bar i equals cash + shares_held*close_i
\* with cash and shares_held taken before bar i's signal is handled; when a
\* trade executes on bar i, the point exceeds cash + shares_held*close_i taken
\* after the trade by that trade's commission.
C7_EquityBeforeTrade ==
    [][ AtBar =>
          LET close == df[i + 1].Close
              point == portfolio_value'[Len(portfolio_value')]
          IN  /\ Len(portfolio_value') = i + 1
              /\ point.value = capital + position * close * PerMille
              /\ point.value = capital' + position' * close * PerMille
                                 + (IF Len(trades') > Len(trades)
                                    THEN trades'[Len(trades')].commission ELSE 0) ]_vars

\* C7 witness: a trade with a non-zero commission has just executed on a bar.
C7_Witness ==
    /\ AfterBar
    /\ Len(trades) > 0
    /\ trades[Len(trades)].date = i - 1
    /\ trades[Len(trades)].commission > 0
    /\ portfolio_value[i].value
         = capital + position * df[i].Close * PerMille + trades[Len(trades)].commission

\* C8: one equity point is appended per bar, in bar order and dated with the
\* bar's timestamp, with or without a trade on the bar, and none by the final
\* close: the curve has i points while bar i is next, and as many points as
\* the series has bars once the loop is over.
C8_OneEquityPointPerBar ==
    /\ (pc = "loop" => Len(portfolio_value) = i)
    /\ (pc \in {"metrics", "done"} => Len(portfolio_value) = Len(data))
    /\ \A k \in 1..Len(portfolio_value) : portfolio_value[k].date = k - 1

\* C8 witness: a run of at least two bars has ended with a forced close on
\* top of trades executed by signal.
C8_Witness ==
    /\ pc = "done"
    /\ Len(data) >= 2
    /\ Len(portfolio_value) = Len(data)
    /\ Len(trades) >= 2
    /\ position > 0

\* C9: the report's final_value is the value of the last equity point, or
\* initial_capital when the equity curve is empty; computing the metrics again
\* from the run's own equity curve and trade log gives the same final_value.
C9_FinalValue ==
    pc = "done" =>
        /\ report[1].final_value
             = (IF portfolio_value = <<>> THEN initial_capital
                ELSE portfolio_value[Len(portfolio_value)].value)
        /\ calculate_metrics(portfolio_value, trades, report[1].initial_capital).final_value
             = report[1].final_value

\* C9 witness: a reported run of several bars whose final value differs from
\* both the initial capital and the first equity point.
C9_Witness ==
    /\ pc = "done"
    /\ Len(portfolio_value) > 1
    /\ report[1].final_value # initial_capital
    /\ report[1].final_value # portfolio_value[1].value

\* C10: at every bar boundary shares_held > 0 exactly when entry_price > 0;
\* while shares are held entry_price is the price of the most recent BUY
\* trade, and while none are held entry_price is 0.
C10_EntryPriceMeaningful ==
    pc = "loop" =>
        /\ (position > 0 <=> entry_price > 0)
        /\ (position > 0 =>
              /\ Len(trades) > 0
              /\ trades[Len(trades)].type = "BUY"
              /\ entry_price = trades[Len(trades)].price)
        /\ (position = 0 => entry_price = 0)

\* C10 witness: a bar boundary with no shares held after a position has been
\* opened and closed.
C10_Witness ==
    /\ pc = "loop"
    /\ position = 0
    /\ entry_price = 0
    /\ Len(trades) = 2

\* ------------------------------------------------ properties of the signals
\* the strategy is one generate_signals knows
KnownStrategy == strategy_type \in {"rsi_macd", "ma_crossover", "combined"}

\* the indicator columns the strategy reads
ColumnsRead(strategy) ==
    IF strategy = "rsi_macd" THEN {"RSI", "MACD", "MACD_Signal"}
    ELSE IF strategy = "ma_crossover" THEN {"SMA_Short", "SMA_Long"}
    ELSE IF strategy = "combined" THEN {"RSI", "MACD", "MACD_Signal", "SMA_Short", "SMA_Long"}
    ELSE {}

\* at least one indicator the strategy reads is undefined on the row
ReadsUndefined(row, strategy) == \E c \in ColumnsRead(strategy) : row[c] = NaN

\* C11: under rsi_macd, ma_crossover and combined, every bar on which at least
\* one indicator read by the strategy is undefined gets the signal HOLD, and
\* the run changes neither cash, shares, entry price nor the trade log on it.
C11_UndefinedIsHold ==
    /\ [](pc # "idle" =>
            \A k \in 1..Len(df) :
                (KnownStrategy /\ ReadsUndefined(df[k], strategy_type)) => df[k].signal = 0)
    /\ [][ (AtBar /\ KnownStrategy /\ ReadsUndefined(df[i + 1], strategy_type))
             => PositionUnchanged ]_vars

\* C11 witness: shares are held across a bar whose defined indicators all
\* point to SELL while SMA_Short is undefined, under the combined strategy.
C11_Witness ==
    /\ AfterBar /\ i = 2
    /\ strategy_type = "combined"
    /\ df[2].SMA_Short = NaN /\ df[2].SMA_Long # NaN
    /\ df[2].RSI = 75 /\ df[2].MACD = 0 /\ df[2].MACD_Signal = 1
    /\ position > 0

\* C12: on every bar whose required indicators are all defined the signal is
\* the one the strategy's rule gives: rsi_macd BUY iff RSI < 30 and
\* MACD > MACD_Signal, SELL iff RSI > 70 and MACD < MACD_Signal; ma_crossover
\* BUY iff SMA_Short > SMA_Long, SELL iff SMA_Short < SMA_Long; combined BUY iff
\* RSI < 40 and MACD > MACD_Signal and SMA_Short > SMA_Long, SELL iff RSI > 60
\* and MACD < MACD_Signal and SMA_Short < SMA_Long; HOLD otherwise; the BUY and
\* the SELL condition never hold together.
C12_SignalRules ==
    pc # "idle" =>
        \A k \in 1..Len(df) :
            LET r    == df[k]
                buy  == IF strategy_type = "rsi_macd"
                            THEN r.RSI < 30 /\ r.MACD > r.MACD_Signal
                        ELSE IF strategy_type = "ma_crossover"
                            THEN r.SMA_Short > r.SMA_Long
                        ELSE r.RSI < 40 /\ r.MACD > r.MACD_Signal /\ r.SMA_Short > r.SMA_Long
                sell == IF strategy_type = "rsi_macd"
                            THEN r.RSI > 70 /\ r.MACD < r.MACD_Signal
                        ELSE IF strategy_type = "ma_crossover"
                            THEN r.SMA_Short < r.SMA_Long
                        ELSE r.RSI > 60 /\ r.MACD < r.MACD_Signal /\ r.SMA_Short < r.SMA_Long
            IN  (KnownStrategy /\ ~ReadsUndefined(r, strategy_type)) =>
                    /\ ~(buy /\ sell)
                    /\ r.signal \in {-1, 0, 1}
                    /\ (r.signal = 1 <=> buy)
                    /\ (r.signal = -1 <=> sell)
                    /\ (r.signal = 0 <=> (~buy /\ ~sell))

\* C12 witness: under rsi_macd a bar with all indicators defined, RSI exactly
\* 30 and MACD above its signal line has been given HOLD.
C12_Witness ==
    /\ pc = "loop" /\ Len(df) = 1
    /\ strategy_type = "rsi_macd"
    /\ ~ReadsUndefined(df[1], "combined")
    /\ df[1].RSI = 30 /\ df[1].MACD = 1 /\ df[1].MACD_Signal = 0
    /\ df[1].signal = 0

\* the series of scenario B: ScenarioBars closes rising strictly from 100 to 200
IsRising ==
    /\ Len(data) = ScenarioBars
    /\ data[1].Close = 100 /\ data[Len(data)].Close = 200
    /\ \A k \in 2..Len(data) : data[k].Close > data[k - 1].Close

\* a finished run of scenario B
ScenarioBDone ==
    /\ IsRising /\ pc = "done"
    /\ strategy_type = "rsi_macd" /\ commission = 1 /\ initial_capital = ScenarioCapital

IsFlat == Len(data) = ScenarioBars /\ \A k \in 1..Len(data) : data[k].Close = 100

\* C14: in scenario A (60 bars, every close 100, engine indicators) strategy
\* ma_crossover gives HOLD on every bar, the run records zero trades, and
\* final_value equals initial_capital.
C14_FlatHolds ==
    (IsFlat /\ strategy_type = "ma_crossover") =>
        /\ \A k \in 1..Len(df) : df[k].signal = 0
        /\ trades = <<>>
        /\ pc = "done" =>
              /\ report[1].total_trades = 0
              /\ report[1].final_value = initial_capital

\* C14 witness: a ma_crossover run over the flat series has finished, and on
\* its last bar both moving averages are defined and equal.
C14_Witness ==
    /\ IsFlat /\ strategy_type = "ma_crossover" /\ pc = "done"
    /\ df[Len(df)].SMA_Short # NaN
    /\ df[Len(df)].SMA_Short = df[Len(df)].SMA_Long

\* C15: in scenario C (a series of exactly one bar, engine indicators) a run
\* under any of the three strategies records no trade and exactly one equity
\* point equal to initial_capital, and reports max_drawdown = 0 and
\* sharpe_ratio = 0.
C15_OneBar ==
    (Len(data) = 1 /\ KnownStrategy /\ pc = "done") =>
        /\ trades = <<>>
        /\ Len(portfolio_value) = 1
        /\ portfolio_value[1].value = initial_capital
        /\ report[1].total_trades = 0
        /\ report[1].max_drawdown.num = 0 /\ report[1].max_drawdown.den # 0
        /\ report[1].sharpe_ratio = "0.0"

\* C15 witness: a run over a one-bar series has finished under a known strategy.
C15_Witness ==
    /\ Len(data) = 1 /\ KnownStrategy /\ pc = "done"
    /\ df[1].RSI = NaN /\ df[1].SMA_Short = NaN
    /\ Len(report) = 1

\* C16: a run requested with a strategy name other than rsi_macd, ma_crossover
\* or combined ends in an error outcome: it never returns a metrics report as
\* if the strategy had produced only HOLD signals.
C16_UnknownStrategyRejected ==
    (pc # "idle" /\ ~KnownStrategy) => report = <<>>

\* C17: given an empty (zero-bar) series the core does not proceed: the run ends
\* in a terminal input-error outcome and never returns a metrics report
\* (final_value = initial_capital, zero trades).
C17_EmptySeriesRejected ==
    Len(data) = 0 => report = <<>>

\* the configurations the specification calls invalid: initial_capital <= 0, or
\* a commission outside [0, 1)
InvalidConfiguration ==
    initial_capital <= 0 \/ commission < 0 \/ commission >= PerMille

\* C18: a run configured with initial_capital <= 0, or with commission outside
\* [0,1), ends in an error outcome before any bar is simulated: no trade, equity
\* point or report is produced for it.
C18_InvalidConfigurationRejected ==
    (pc # "idle" /\ InvalidConfiguration) =>
        /\ i = 0
        /\ trades = <<>> /\ portfolio_value = <<>> /\ report = <<>>

\* the runs C19 speaks of: a non-empty series of positive closes, one of the
\* three strategies, initial_capital > 0 and a commission in [0, 1)
ValidRun ==
    /\ pc # "idle"
    /\ Len(data) > 0 /\ \A k \in 1..Len(data) : data[k].Close > 0
    /\ KnownStrategy
    /\ ~InvalidConfiguration

\* the number of steps run_backtest has left at most
StepsLeft ==
    IF pc = "idle" THEN Len(data) + 3
    ELSE IF pc = "loop" THEN (Len(df) - i) + 2
    ELSE IF pc = "metrics" THEN 1
    ELSE 0

\* the guards of Bar, ClosePosition and CalculateMetrics; each of these actions
\* gives every variable a value, so it is enabled wherever its guard holds
CanStep ==
    \/ pc = "loop" /\ i < Len(df)
    \/ pc = "loop" /\ i = Len(df)
    \/ pc = "metrics"

\* the bars handled so far are bars 0..n-1, each once and in order, as the
\* equity curve records them
HandledOnce(n) ==
    /\ Len(portfolio_value) = n
    /\ \A k \in 1..n : portfolio_value[k].date = k - 1

\* C19: for every non-empty series carrying the indicator columns, each of the
\* three strategies, initial_capital > 0, positive closes and commission in
\* [0,1): run_backtest handles each bar exactly once; it terminates (every step
\* lowers the number of steps left, and a step is possible until the report is
\* returned); the report holds final_value, total_return and win_rate and its
\* initial_capital is the value given at construction; and no step divides by
\* zero: entry_price in profit_pct, the count of closing trades in win_rate and
\* the running peak of the drawdown are all non-zero.
C19_TerminatesWithReport ==
    /\ [](ValidRun =>
            /\ pc \in {"loop", "metrics", "done"}
            /\ pc # "done" => CanStep
            /\ HandledOnce(IF pc = "loop" THEN i ELSE Len(data))
            /\ position > 0 => entry_price > 0
            /\ \A k \in OfType(trades, "SELL") : trades[k].profit_pct.den > 0
            /\ \A k \in 1..Len(portfolio_value) : portfolio_value[k].value > 0
            /\ pc = "metrics" => ~MetricsRaise(portfolio_value, trades, initial_capital)
            /\ pc = "done" =>
                  /\ Len(report) = 1
                  /\ {"final_value", "total_return", "win_rate"} \subseteq DOMAIN report[1]
                  /\ report[1].initial_capital = initial_capital
                  /\ report[1].total_return_pct.den # 0
                  /\ report[1].win_rate.den # 0
                  /\ report[1].max_drawdown.den # 0)
    /\ [][ValidRun' => StepsLeft' < StepsLeft]_vars

\* C19 witness: a run over a series of MaxBars bars has returned its report
\* after a BUY, a SELL on a signal and a second BUY closed by the final close.
C19_Witness ==
    /\ ValidRun /\ pc = "done"
    /\ Len(data) = MaxBars
    /\ Cardinality(OfType(trades, "SELL")) >= 1
    /\ report[1].win_rate.den >= 1
    /\ Len(portfolio_value) = MaxBars

\* the call in progress is the second one on the instance and has the
\* arguments of the first
SameArguments ==
    /\ returned # <<>>
    /\ strategy_type = returned[1].strategy_type
    /\ commission = returned[1].commission

\* s is the sequence t cut to the length of s
IsPrefix(s, t) == Len(s) <= Len(t) /\ s = SubSeq(t, 1, Len(s))

\* C20: two runs given identical series, indicator values, strategy, commission
\* and initial_capital produce identical trade logs, equity curves and reports.
\* A second run_backtest call on the same instance starts its loop in the state
\* a first call starts it in, keeping no trade or equity point of the first
\* call; with the arguments of the first call it goes through the same trade
\* log and equity curve and returns the same report.
C20_Reproducible ==
    /\ (returned # <<>> /\ pc = "loop" /\ i = 0) =>
          /\ trades = <<>> /\ portfolio_value = <<>>
          /\ capital = initial_capital /\ position = 0 /\ entry_price = 0
          /\ df = generate_signals(data, strategy_type)
    /\ SameArguments =>
          /\ IsPrefix(trades, returned[1].trades)
          /\ IsPrefix(portfolio_value, returned[1].portfolio_value)
          /\ pc = "done" =>
                /\ trades = returned[1].trades
                /\ portfolio_value = returned[1].portfolio_value
                /\ report = returned[1].report

\* C20 witness: the second call on an instance has returned, with the arguments
\* of the first call, after a run that traded.
C20_Witness ==
    /\ SameArguments /\ pc = "done"
    /\ Len(trades) >= 2
    /\ Len(report) = 1

\* the SELL trades of the log whose profit is above 0
WinningSells == {k \in OfType(trades, "SELL") : trades[k].profit > 0}

\* the SELL trades of the log whose profit is below 0
LosingSells == {k \in OfType(trades, "SELL") : trades[k].profit < 0}

\* the SELL trades of the log whose profit is exactly 0
EvenSells == {k \in OfType(trades, "SELL") : trades[k].profit = 0}

\* C22: after any run win_rate equals 100 * (number of SELL trades with
\* profit > 0) / (number of SELL trades), is 0 when the log holds no SELL
\* trade, and lies in [0, 100]; a SELL whose profit is exactly 0 counts in the
\* denominator but neither as profitable nor as losing.
C22_WinRate ==
    pc = "done" =>
        LET sells    == Cardinality(OfType(trades, "SELL"))
            win_rate == report[1].win_rate
        IN  /\ IF sells = 0 THEN win_rate.num = 0 /\ win_rate.den = 1
               ELSE win_rate = Frac(100 * Cardinality(WinningSells), sells)
            /\ win_rate.den > 0
            /\ 0 <= win_rate.num /\ win_rate.num <= 100 * win_rate.den
            /\ report[1].profitable_trades = Cardinality(WinningSells)
            /\ report[1].losing_trades = Cardinality(LosingSells)
            /\ report[1].profitable_trades + report[1].losing_trades
                  + Cardinality(EvenSells) = sells

\* C22 witness: a reported run with one winning SELL and one SELL of profit 0.
C22_Witness ==
    /\ pc = "done"
    /\ Cardinality(WinningSells) = 1
    /\ Cardinality(EvenSells) = 1
    /\ report[1].win_rate = Frac(100, 2)

\* the per-bar returns of the equity curve all have the same value
ZeroDeviation ==
    \A j \in 2..Len(portfolio_value), k \in 2..Len(portfolio_value) :
        SameReturn(ValuesOf(portfolio_value), j, k)

\* C23: sharpe_ratio is exactly 0, and never undefined (NaN), whenever the
\* equity curve yields fewer than 2 per-bar returns (a curve of 0, 1 or 2
\* points) or the per-bar returns have zero standard deviation.
C23_SharpeZero ==
    (pc = "done" /\ (Len(portfolio_value) <= 2 \/ ZeroDeviation)) =>
        report[1].sharpe_ratio = "0.0"

\* C24: the reported max_drawdown is the maximum over all bars of
\* (running peak - equity) / running peak * 100: it is the drawdown of some
\* bar and no bar's drawdown exceeds it; it is 0 for an empty equity curve; and
\* it is 0 exactly when the equity curve never falls below its running peak.
C24_MaxDrawdown ==
    pc = "done" =>
        LET n       == Len(portfolio_value)
            v(k)    == portfolio_value[k].value
            peak(k) == CHOOSE x \in {v(j) : j \in 1..k} : \A j \in 1..k : v(j) <= x
            dd(k)   == Frac((peak(k) - v(k)) * 100, peak(k))
            m       == report[1].max_drawdown
        IN  /\ n = 0 => m.num = 0 /\ m.den # 0
            /\ n > 0 => /\ \E k \in 1..n : m = dd(k)
                        /\ \A k \in 1..n : ~FracLt(m, dd(k))
            /\ m.den # 0
            /\ m.num = 0 <=> \A k \in 1..n : v(k) >= peak(k)

\* C24 witness: a reported run whose equity fell under an earlier peak and
\* then rose again, so that the largest drawdown is not the last one.
C24_Witness ==
    /\ pc = "done" /\ Len(portfolio_value) = 3
    /\ portfolio_value[2].value < portfolio_value[1].value
    /\ portfolio_value[3].value > portfolio_value[2].value
    /\ report[1].max_drawdown.num > 0

\* the trades of the log executed on the last bar of the series
OnLastBar == {k \in 1..Len(trades) : trades[k].date = Len(data) - 1}

\* C28 as stated: when a position is closed on the final bar (by a SELL signal
\* on that bar or by the forced close), final_value equals the cash held
\* before that close plus shares_held * last close, and exceeds the cash held
\* at the end of the run by exactly the commission recorded on that closing
\* SELL; when no trade executes on or after the final bar, final_value equals
\* the cash held at the end of the run.
C28_OverstatesByClosingCommission ==
    (pc = "done" /\ Len(data) > 0) =>
        LET final_value == report[1].final_value
            last        == trades[Len(trades)]
        IN  IF OnLastBar = {} THEN final_value = capital
            ELSE /\ last.type = "SELL"
                 /\ final_value = (capital - Proceeds(last.shares, last.price, commission))
                                    + last.shares * last.price * PerMille
                 /\ final_value - capital = last.commission

\* C28 amended: when a position held at the start of the final bar is closed
\* on that bar (by a SELL signal on it or by the forced close), final_value
\* equals the cash held before that close plus shares_held * last close, and
\* exceeds the cash held at the end of the run by exactly the commission
\* recorded on that closing SELL.  When the position is bought on the final bar
\* itself and then closed by the forced close, final_value is the cash held
\* before that BUY and exceeds the cash held at the end by the commissions of
\* both trades.  When no trade executes on or after the final bar, final_value
\* equals the cash held at the end of the run.
C28_OverstatesByLastBarCommissions ==
    (pc = "done" /\ Len(data) > 0) =>
        LET final_value == report[1].final_value
            last        == trades[Len(trades)]
        IN  IF OnLastBar = {} THEN final_value = capital
            ELSE IF Cardinality(OnLastBar) = 1 THEN
                 /\ last.type = "SELL"
                 /\ final_value = (capital - Proceeds(last.shares, last.price, commission))
                                    + last.shares * last.price * PerMille
                 /\ final_value - capital = last.commission
            ELSE /\ OnLastBar = {Len(trades) - 1, Len(trades)}
                 /\ trades[Len(trades) - 1].type = "BUY" /\ last.type = "SELL"
                 /\ final_value = (capital - Proceeds(last.shares, last.price, commission))
                                    + Cost(last.shares, last.price, commission)
                 /\ final_value - capital
                       = trades[Len(trades) - 1].commission + last.commission

\* C28 witness: a run with a commission has returned after closing, by the
\* forced close, a position held since before the final bar.
C28_Witness ==
    /\ pc = "done" /\ Len(data) > 1 /\ commission > 0
    /\ OnLastBar = {Len(trades)}
    /\ trades[Len(trades)].type = "SELL"
    /\ df[Len(df)].signal # -1
    /\ report[1].final_value > capital

\* calculate_rsi has run on the object
RSIComputed == "RSI" \in ti.computed

\* C25: for every series of positive closes and every bar at which
\* calculate_rsi yields a defined value, 0 <= RSI <= 100.
C25_RSIRange ==
    RSIComputed =>
        \A k \in 1..Len(ti.RSI) :
            ti.RSI[k].den # 0 =>
                /\ ti.RSI[k].den > 0
                /\ 0 <= ti.RSI[k].num
                /\ ti.RSI[k].num <= 100 * ti.RSI[k].den

\* C25 witness: calculate_rsi has given, on one series, an RSI of 0, an RSI of
\* 100 and an RSI strictly between the two.
C25_Witness ==
    /\ RSIComputed
    /\ \E k \in 1..Len(ti.RSI) : ti.RSI[k].den > 0 /\ ti.RSI[k].num = 0
    /\ \E k \in 1..Len(ti.RSI) : ti.RSI[k].den > 0 /\ ti.RSI[k].num = 100 * ti.RSI[k].den
    /\ \E k \in 1..Len(ti.RSI) :
          /\ ti.RSI[k].den > 0
          /\ 0 < ti.RSI[k].num /\ ti.RSI[k].num < 100 * ti.RSI[k].den

\* C26: for every bar with a full RSI window (rsi_period price changes) whose
\* average loss over the window is 0, whatever the average gain is,
\* calculate_rsi yields RSI = 100 and never an undefined value.
C26_NoLossIsHundred ==
    RSIComputed =>
        \A k \in (ti.rsi_period + 1)..Len(ti.data) :
            SumSeq(Losses(ti.data), k - ti.rsi_period + 1, k) = 0 =>
                /\ ti.RSI[k].den # 0
                /\ ti.RSI[k].num = 100 * ti.RSI[k].den

\* C27: calculate_rsi with period p yields an undefined RSI at each of the
\* first p bars of the series (bar indices 0..p-1): the undefined price change
\* of bar 0 is never counted as a zero gain or a zero loss of a window.
C27_FirstPeriodBarsUndefined ==
    RSIComputed =>
        \A k \in 1..Len(ti.RSI) : k <= ti.rsi_period => ti.RSI[k].den = 0

\* the labels that are a Buy or a Sell signal
TradeLabels ==
    {"OVERSOLD (Buy Signal)", "OVERBOUGHT (Sell Signal)",
     "BULLISH (Buy Signal)", "BEARISH (Sell Signal)"}

\* C29: get_latest_signals gives a Buy or Sell label for MACD or MA_Crossover
\* only when both compared latest values are defined and strictly ordered;
\* when the two are equal, or either is undefined, the label is neither.
C29_LabelsNeedStrictOrder ==
    ti.signals # <<>> =>
        LET latest == ti.signals[1].indicators
            labels == ti.signals[1].signals
        IN  /\ labels.MACD \in TradeLabels => latest.MACD # 0
            /\ labels.MA_Crossover \in TradeLabels =>
                  \/ FracLt(latest.SMA_Short, latest.SMA_Long)
                  \/ FracLt(latest.SMA_Long, latest.SMA_Short)

\* the number of steps fetch_data has left at most
FetchStepsLeft ==
    IF dc.pc = "idle" THEN MaxRetries + 2
    ELSE IF dc.pc = "loop" THEN (MaxRetries - dc.retry_count) + 1
    ELSE 0

First ==
    [pc |-> pc, data |-> data, initial_capital |-> initial_capital,
     strategy_type |-> strategy_type, commission |-> commission, df |-> df, i |-> i,
     capital |-> capital, position |-> position, entry_price |-> entry_price,
     trades |-> trades, portfolio_value |-> portfolio_value, report |-> report]

\* what the run of instance b gives when it runs alone from its construction
Alone(b) ==
    RunAlone(BeginStep(NewInstance(input, b.initial_capital), b.strategy_type, b.commission))

\* wherever the run of b stands, carried to its end it gives the trade log,
\* equity curve and report of the run alone
SameAsAlone(b) ==
    b.pc # "idle" =>
        /\ RunAlone(b).trades = Alone(b).trades
        /\ RunAlone(b).portfolio_value = Alone(b).portfolio_value
        /\ RunAlone(b).report = Alone(b).report
        /\ b.pc = "done" => b.trades = Alone(b).trades
                            /\ b.portfolio_value = Alone(b).portfolio_value

====
